---- MODULE Spec2Model ----
(***************************************************************************)
(* Model of the orchestrator control loop of fltk                           *)
(* (src/fltk/core/distributed/orchestrator.py): admission of arrivals into  *)
(* the pending priority queue, deployment of pending tasks, and the         *)
(* polling of deployed jobs until they reach a terminal status, under the   *)
(* SimulatedOrchestrator, BatchOrchestrator and                             *)
(* OptimizedSimulatedOrchestrator run() loops.                              *)
(***************************************************************************)
EXTENDS Integers, Sequences, FiniteSets, TLC

(* ------------------------------ bounds --------------------------------- *)
\* arrivals the generator produces over the life of the process
MaxArrivals == 2
\* polls of one wait_for_jobs_to_complete call that may see a non-terminal status
MaxPolls == 1
\* calls of run() in the process
MaxRuns == 2
\* the same bound for the polling loop taken alone
MaxWaitPolls == 5
\* tasks put into the priority queue taken alone
MaxQueue == 4
\* arrivals produced in all when the feed starts with three of them
MaxLoaded == 4
\* tasks found in pending_tasks when the epoch budget is taken alone
MaxBacklog == 2
\* tasks given an epoch budget on top of them
MaxBudgeted == 2
MaxLive == 2
MaxItems == 5
MaxReplicas == 3

(* ----------------------------- value sets ------------------------------ *)
Policies == {"simulated", "batch", "optimized"}
\* roles of a task's type_map (an ordered dict): one config map per role
Roles == <<"Master", "Worker">>
\* what the generator can put into its queue: every priority and every type
\* occur, and two inputs share a priority
\* (epochs: hyper_parameters.default.total_epochs as requested by the arrival)
ArrivalInputs ==
    {[priority |-> 1, kind |-> "distributed", epochs |-> 10],
     [priority |-> 2, kind |-> "distributed", epochs |-> 50],
     [priority |-> 3, kind |-> "federated", epochs |-> 5],
     [priority |-> 2, kind |-> "unknown", epochs |-> 10]}
\* values of the attribute total_time read by _optimize_epochs
TotalTimes == {100, 150}
NoQuery == [task |-> -1, status |-> "none"]
\* job names that may exist in the namespace before the process starts: one
\* carrying a uuid (identifier 0), one carrying none (uuid -1)
ForeignNames == {[uuid |-> 0], [uuid |-> -1]}
\* line 235: the namespace the status query names, whatever the configuration
QueryNamespace == "test"
\* namespaces a configuration may name
Namespaces == {"test", "default"}
Terminal == {"Completed", "Failed", "Succeeded"}
\* what one get_job_status call can produce: an exception, no status, a
\* non-terminal status, or a terminal one
Statuses == {"raise", "None", "Running"} \cup Terminal
NoTask == [id |-> -1, priority |-> 0, seq |-> 0, kind |-> "none", epochs |-> 0]

(* ------------------------------ variables ------------------------------ *)
VARIABLES
    policy,              \* which Orchestrator subclass runs
    parallel_execution,  \* config.cluster_config.orchestrator.parallel_execution
    total_time,          \* self.total_time, the time budget of the budget-adaptive policy
    namespace,           \* config.cluster_config.namespace, where the jobs are submitted
    alive,               \* Orchestrator._alive
    pc,                  \* position of the control thread inside run()
    wret,                \* the caller the running wait_for_jobs_to_complete returns to
    arrivals,            \* the arrival generator's queue (FIFO)
    arrived,             \* arrivals the generator has produced
    pending_tasks,       \* Orchestrator.pending_tasks: the heap array of the PriorityQueue
    deployed_tasks,      \* Orchestrator.deployed_tasks
    completed_tasks,     \* Orchestrator.completed_tasks
    curr_task,           \* the task popped by the deploy loop, NoTask outside it
    roles_done,          \* config maps created for curr_task, in type_map order
    cluster_jobs,        \* names of the jobs present in the namespace
    to_delete,           \* jobs _clear_jobs still has to visit
    task_to_move,        \* wait_for_jobs_to_complete: task_to_move
    polled,              \* tasks queried so far in this poll iteration
    last_query,          \* the latest status query of this poll iteration and its result
    w_sleeps,            \* sleeps done by the running wait call
    misses,              \* per task id: polls of the running wait call without a terminal status
    w_entry,             \* the arguments and collections the running wait call started with
    w_queries,           \* whether the running wait call has issued a status query
    next_id,             \* identifier of the next task built (uuid4 is modelled by a counter)
    runs,                \* calls of run() so far
    iter_log,            \* tasks popped by the deploy loop since the last admission phase
    lost,                \* tasks popped from pending whose deployment raised
    failure,             \* the latest call that raised outside the status query, "none"
                         \* if none did; the exception left run() when pc = "crashed"
    admit_mark,          \* next_id when the latest admission phase ended
    sampler_args,        \* data_samplers: the dataset and the args a learner passes to get_sampler
    samplers             \* data_samplers: what get_sampler gave each rank that called it

config == <<policy, parallel_execution, total_time, namespace>>
feed == <<arrivals, arrived>>
cluster == <<cluster_jobs, to_delete>>
deploying == <<curr_task, roles_done>>
waiting == <<wret, task_to_move, polled, last_query, w_sleeps, misses, w_entry, w_queries>>
ghosts == <<iter_log, lost, failure, admit_mark>>
\* the learners' side (data_samplers.py), which no step of the orchestrator touches
learner == <<sampler_args, samplers>>

vars == <<policy, parallel_execution, total_time, namespace, alive, pc, wret, arrivals, arrived,
          pending_tasks, deployed_tasks, completed_tasks, curr_task, roles_done,
          cluster_jobs, to_delete, task_to_move, polled, last_query,
          w_sleeps, misses, w_entry, w_queries, next_id, runs, iter_log, lost,
          failure, admit_mark, sampler_args, samplers>>

(* --------------------------- pure helpers ------------------------------ *)
Ids(S) == {t.id : t \in S}
SeqToSet(s) == {s[i] : i \in 1..Len(s)}
EmptyFn == [x \in {} |-> 0]

\* ArrivalTask ordering: priority first, arrival sequence number on ties
TaskLess(a, b) ==
    \/ a.priority < b.priority
    \/ a.priority = b.priority /\ a.seq < b.seq

\* heapq._siftdown(heap, startpos, pos) with newitem held aside (0-based positions)
RECURSIVE SiftDown(_, _, _, _)
SiftDown(h, startpos, pos, newitem) ==
    IF pos > startpos
    THEN LET parentpos == (pos - 1) \div 2
             parent == h[parentpos + 1]
         IN IF TaskLess(newitem, parent)
            THEN SiftDown([h EXCEPT ![pos + 1] = parent], startpos, parentpos, newitem)
            ELSE [h EXCEPT ![pos + 1] = newitem]
    ELSE [h EXCEPT ![pos + 1] = newitem]

\* the descent of heapq._siftup: bubble the smaller child up until a leaf
RECURSIVE SiftUpDescend(_, _, _)
SiftUpDescend(h, pos, newitem) ==
    LET endpos == Len(h)
        childpos == 2 * pos + 1
        rightpos == childpos + 1
        pick == IF rightpos < endpos /\ ~TaskLess(h[childpos + 1], h[rightpos + 1])
                THEN rightpos ELSE childpos
    IN IF childpos < endpos
       THEN SiftUpDescend([h EXCEPT ![pos + 1] = h[pick + 1]], pick, newitem)
       ELSE <<h, pos>>

\* heapq._siftup(heap, 0)
SiftUp(h) ==
    LET newitem == h[1]
        d == SiftUpDescend(h, 0, newitem)
    IN SiftDown(d[1], 0, d[2], newitem)

\* PriorityQueue.put: heappush = append, then _siftdown(heap, 0, len - 1)
\* (PutFifo: the put of a plain FIFO queue)
PutFifo(h, t) == Append(h, t)
Put(h, t) == SiftDown(Append(h, t), 0, Len(h), t)

\* PriorityQueue.get: heappop = take heap[0], move the last item to the root, _siftup
\* (GetRestNoSift: the last item is moved to the root and left there)
GetItem(h) == h[1]
GetRestNoSift(h) ==
    IF Len(h) = 1 THEN <<>>
    ELSE <<h[Len(h)]>> \o SubSeq(h, 2, Len(h) - 1)
GetRest(h) ==
    IF Len(h) = 1 THEN <<>>
    ELSE SiftUp(<<h[Len(h)]>> \o SubSeq(h, 2, Len(h) - 1))

\* _generate_task: a fresh identifier, the arrival's priority and type
GenerateTask(arrival, n) ==
    [id |-> n, priority |-> arrival.priority, seq |-> n, kind |-> arrival.kind,
     epochs |-> arrival.epochs]

\* HistoricalArrivalTask(id)
HistoricalArrivalTask(i) ==
    [id |-> i, priority |-> 0, seq |-> 0, kind |-> "historical", epochs |-> 0]

\* (HistoricalIdsUnfiltered: the comprehension of line 227 without its filter)
HistoricalIdsUnfiltered(others) == {n.uuid : n \in others}

\* the uuid regex over the supplied job names: names without a uuid are skipped
HistoricalIds(others) == {n.uuid : n \in {m \in others : m.uuid >= 0}}

(* _optimize_epochs works on floats; here times are integers counting
   1/10000 of a time unit, so that the two literals are exact. With an integer
   total_time the quotient of estimate_epochs is an integer only when the
   number of queued tasks plus one is a multiple of 5, and is otherwise at
   least 1/270135 away from one: for the queues considered here the float
   computation truncates to the same integer. *)
INTERCEPT == -31629
SLOPE == 270135
BASE_EPOCHS == 10

Max(a, b) == IF a >= b THEN a ELSE b
Min(a, b) == IF a <= b THEN a ELSE b
\* int(x / y) for y > 0: truncation towards zero
TruncDiv(x, y) == IF x >= 0 THEN x \div y ELSE -((-x) \div y)

\* estimated_time(task1), from the epochs of the task
estimated_time(epochs) == INTERCEPT + SLOPE * epochs
\* estimate_epochs(time)
estimate_epochs(time) == TruncDiv(time - INTERCEPT, SLOPE)

\* lines 500-502: current_queue_time, summed over self.pending_tasks.queue
RECURSIVE QueueTime(_)
QueueTime(queue) ==
    IF Len(queue) = 0 THEN 0
    ELSE estimated_time(Head(queue).epochs) + QueueTime(Tail(queue))

\* (EpochsUnclamped: the estimate written without the clamp of line 505)
EpochsUnclamped(queue, total) == estimate_epochs(total * 10000 - QueueTime(queue))
\* (EpochsBacklogAdded: the queue time added to total_time instead of subtracted)
EpochsBacklogAdded(queue, total) ==
    Min(Max(estimate_epochs(total * 10000 + QueueTime(queue)), 1), BASE_EPOCHS)
\* lines 504-505: the epochs set_epochs receives
Epochs(queue, total) ==
    Min(Max(estimate_epochs(total * 10000 - QueueTime(queue)), 1), BASE_EPOCHS)

\* _optimize_epochs(task): the task with its epochs rewritten
OptimizeEpochs(task, queue, total) == [task EXCEPT !.epochs = Epochs(queue, total)]

\* render_template: only federated and distributed tasks have a template
CanRender(task) == task.kind \in {"federated", "distributed"}

\* line 240: job_status and job_status in {'Completed', 'Failed', 'Succeeded'}
\* (IsTerminalNoFailed: 'Failed' left out of the set)
IsTerminalNoFailed(status) == status \in {"Completed", "Succeeded"}
IsTerminal(status) == status \in Terminal

JobName(task) == [uuid |-> task.id]

(* -------------------------------- Init --------------------------------- *)
NoEntry == [others |-> {}, deployed |-> {}, completed |-> {}, pending |-> <<>>]

\* no learner has asked for a sampler
NoArgs == [distributed |-> FALSE, method |-> "none", callable |-> FALSE,
           world_size |-> 0, length |-> 0]
NoSampling == sampler_args = NoArgs /\ samplers = EmptyFn

\* everything but the configuration, the namespace and the feed, as the class
\* body (lines 140-144) and __init__ leave it
Fresh ==
    /\ alive = FALSE
    /\ wret = "none"
    /\ pending_tasks = <<>>
    /\ deployed_tasks = {}
    /\ completed_tasks = {}
    /\ curr_task = NoTask
    /\ roles_done = 0
    /\ to_delete = {}
    /\ task_to_move = {}
    /\ polled = {}
    /\ last_query = NoQuery
    /\ w_sleeps = 0
    /\ misses = EmptyFn
    /\ w_entry = NoEntry
    /\ w_queries = FALSE
    /\ next_id = 1
    /\ runs = 0
    /\ iter_log = <<>>
    /\ lost = {}
    /\ failure = "none"
    /\ admit_mark = 1

Init ==
    /\ policy \in Policies
    /\ parallel_execution \in BOOLEAN
    /\ total_time \in (IF policy = "optimized" THEN TotalTimes ELSE {0})
    /\ NoSampling
    /\ namespace = QueryNamespace
    /\ pc = "idle"
    /\ arrivals = <<>>
    /\ arrived = 0
    /\ cluster_jobs \in {{}, ForeignNames}
    /\ Fresh

(* ------------------- a second instance in the process ------------------ *)
\* attributes bound in the instance: by __init__ (lines 148-157), and _alive
\* by the assignments of stop() and run() (lines 166, 260)
InstanceAttributes ==
    {"_logger", "_cluster_mgr", "_arrival_generator", "_config", "_client", "_v1", "_alive"}

\* what self.<name> is for a second Orchestrator that was constructed and has
\* run nothing: its own object for an attribute bound in the instance, the
\* object of the class body (lines 140-144) otherwise. The running instance
\* changes the three collections in place (put, get, add, update,
\* difference_update) and never rebinds them.
OtherInstance(name, constructed, of_class) ==
    IF name \in InstanceAttributes THEN constructed ELSE of_class
OtherPending == OtherInstance("pending_tasks", <<>>, pending_tasks)
OtherDeployed == OtherInstance("deployed_tasks", {}, deployed_tasks)
OtherCompleted == OtherInstance("completed_tasks", {}, completed_tasks)

(* ------------------------ wait_for_jobs_to_complete --------------------- *)
\* the position a wait call returns to, by caller
ReturnPc(ret) ==
    CASE ret = "seq" -> "deploy_test"
      [] ret = "final" -> IF policy = "batch" THEN "stop_call" ELSE "done"
      [] ret = "hk" -> "first_arrival"
      [] ret = "hk_clear" -> "clear_list"
      [] OTHER -> "returned"

\* lines 224-229: the tasks `others` seeds deployed_tasks with
Seeded(others) == {HistoricalArrivalTask(i) : i \in HistoricalIds(others)}

\* lines 218-229: the call, with the seeding of deployed_tasks from `others`
EnterWait(ret, others) ==
    /\ deployed_tasks' = deployed_tasks \cup Seeded(others)
    /\ w_entry' = [others |-> others, deployed |-> deployed_tasks,
                   completed |-> completed_tasks, pending |-> pending_tasks]
    /\ wret' = ret
    /\ pc' = "w_test"
    /\ w_sleeps' = 0
    /\ w_queries' = FALSE
    /\ misses' = [i \in Ids(deployed_tasks') |-> 0]
    /\ task_to_move' = {}
    /\ polled' = {}
    /\ last_query' = NoQuery

\* (WaitTestDoWhile: the loop body runs once before the test)
WaitTestDoWhile ==
    /\ pc = "w_test"
    /\ pc' = IF deployed_tasks = {} /\ w_sleeps > 0 THEN "w_ret" ELSE "w_for"
    /\ misses' = [i \in DOMAIN misses \cap Ids(deployed_tasks) |-> misses[i]]
    /\ task_to_move' = {}
    /\ polled' = {}
    /\ last_query' = NoQuery
    /\ UNCHANGED <<config, learner, alive, feed, pending_tasks, deployed_tasks, completed_tasks,
                   deploying, cluster, wret, w_sleeps, w_entry, w_queries,
                   next_id, runs, ghosts>>

\* (WaitTestLeavesOne: the loop condition as len(self.deployed_tasks) > 1)
WaitTestLeavesOne ==
    /\ pc = "w_test"
    /\ pc' = IF Cardinality(deployed_tasks) <= 1 THEN "w_ret" ELSE "w_for"
    /\ misses' = [i \in DOMAIN misses \cap Ids(deployed_tasks) |-> misses[i]]
    /\ task_to_move' = {}
    /\ polled' = {}
    /\ last_query' = NoQuery
    /\ UNCHANGED <<config, learner, alive, feed, pending_tasks, deployed_tasks, completed_tasks,
                   deploying, cluster, wret, w_sleeps, w_entry, w_queries,
                   next_id, runs, ghosts>>

\* line 230: while len(self.deployed_tasks) > 0; line 231: task_to_move = set()
WaitTest ==
    /\ pc = "w_test"
    /\ pc' = IF deployed_tasks = {} THEN "w_ret" ELSE "w_for"
    /\ misses' = [i \in DOMAIN misses \cap Ids(deployed_tasks) |-> misses[i]]
    /\ task_to_move' = {}
    /\ polled' = {}
    /\ last_query' = NoQuery
    /\ UNCHANGED <<config, learner, alive, feed, pending_tasks, deployed_tasks, completed_tasks,
                   deploying, cluster, wret, w_sleeps, w_entry, w_queries,
                   next_id, runs, ghosts>>

\* lines 233-235: the query asks for the job trainjob-<task.id> in namespace
\* 'test'. The jobs of this process are created in the configured namespace
\* (lines 290, 456, 542); the historical tasks come from a listing of 'test'
\* (line 414).
Visible(task) == task.kind = "historical" \/ namespace = QueryNamespace

\* what the query can produce for a task: for a job that is not in the
\* namespace asked, an exception or no status
StatusesOf(task) == IF Visible(task) THEN Statuses ELSE {"raise", "None"}

\* w_sleeps and misses count up to SleepCap
SleepCap == MaxWaitPolls + 1

\* (WaitQueryUncaught: the query without its try/except, an exception leaves
\* the call)
WaitQueryUncaught(bound) ==
    /\ pc = "w_for"
    /\ \E task \in deployed_tasks \ polled : \E status \in StatusesOf(task) :
        /\ \A u \in deployed_tasks \ polled : task.id <= u.id
        /\ IsTerminal(status) \/ w_sleeps < bound \/ ~Visible(task)
        /\ polled' = polled \cup {task}
        /\ last_query' = [task |-> task.id, status |-> status]
        /\ task_to_move' = IF IsTerminal(status) THEN task_to_move \cup {task}
                           ELSE task_to_move
        /\ misses' = IF IsTerminal(status) THEN misses
                     ELSE [misses EXCEPT ![task.id] = Min(@ + 1, SleepCap)]
        /\ pc' = IF status = "raise" THEN "crashed" ELSE pc
        /\ failure' = IF status = "raise" THEN "status" ELSE failure
    /\ w_queries' = TRUE
    /\ UNCHANGED <<config, learner, alive, feed, pending_tasks, deployed_tasks,
                   completed_tasks, deploying, cluster, wret, w_sleeps, w_entry,
                   next_id, runs, iter_log, lost, admit_mark>>

\* lines 232-244: the body of the for loop for one deployed task: the status
\* query (an exception counts as no status), then the test of line 240.
\* The tasks are visited by ascending identifier; `bound` caps the polls that
\* may see a non-terminal status.
WaitQueryB(bound) ==
    /\ pc = "w_for"
    /\ \E task \in deployed_tasks \ polled : \E status \in StatusesOf(task) :
        /\ \A u \in deployed_tasks \ polled : task.id <= u.id
        /\ IsTerminal(status) \/ w_sleeps < bound \/ ~Visible(task)
        /\ polled' = polled \cup {task}
        /\ last_query' = [task |-> task.id, status |-> status]
        /\ task_to_move' = IF IsTerminal(status) THEN task_to_move \cup {task}
                           ELSE task_to_move
        /\ misses' = IF IsTerminal(status) THEN misses
                     ELSE [misses EXCEPT ![task.id] = Min(@ + 1, SleepCap)]
    /\ w_queries' = TRUE
    /\ UNCHANGED <<config, learner, alive, pc, feed, pending_tasks, deployed_tasks,
                   completed_tasks, deploying, cluster, wret, w_sleeps, w_entry,
                   next_id, runs, ghosts>>

WaitQuery == WaitQueryB(MaxPolls)

\* (WaitUpdateAfterSleep: the sleep of line 247 placed before the move)
WaitUpdateAfterSleep ==
    /\ pc = "w_for"
    /\ polled = deployed_tasks
    /\ w_sleeps' = w_sleeps + 1
    /\ completed_tasks' = completed_tasks \cup task_to_move
    /\ deployed_tasks' = deployed_tasks \ task_to_move
    /\ pc' = "w_sleep"
    /\ last_query' = NoQuery
    /\ UNCHANGED <<config, learner, alive, feed, pending_tasks, deploying, cluster, wret,
                   task_to_move, polled, misses, w_entry, w_queries,
                   next_id, runs, ghosts>>

\* (WaitUpdateDiscards: the terminal tasks removed from deployed_tasks without
\* the update of completed_tasks of line 245)
WaitUpdateDiscards ==
    /\ pc = "w_for"
    /\ polled = deployed_tasks
    /\ deployed_tasks' = deployed_tasks \ task_to_move
    /\ pc' = "w_sleep"
    /\ last_query' = NoQuery
    /\ UNCHANGED <<config, learner, alive, feed, pending_tasks, completed_tasks, deploying,
                   cluster, wret, task_to_move, polled, w_sleeps, misses, w_entry,
                   w_queries, next_id, runs, ghosts>>

\* lines 245-246: after the for loop, move the terminal tasks
WaitUpdate ==
    /\ pc = "w_for"
    /\ polled = deployed_tasks
    /\ completed_tasks' = completed_tasks \cup task_to_move
    /\ deployed_tasks' = deployed_tasks \ task_to_move
    /\ pc' = "w_sleep"
    /\ last_query' = NoQuery
    /\ UNCHANGED <<config, learner, alive, feed, pending_tasks, deploying, cluster, wret,
                   task_to_move, polled, w_sleeps, misses, w_entry, w_queries,
                   next_id, runs, ghosts>>

\* line 247: time.sleep(self.SLEEP_TIME)
WaitSleep ==
    /\ pc = "w_sleep"
    /\ w_sleeps' = Min(w_sleeps + 1, SleepCap)
    /\ pc' = "w_test"
    /\ UNCHANGED <<config, learner, alive, feed, pending_tasks, deployed_tasks, completed_tasks,
                   deploying, cluster, wret, task_to_move, polled, last_query,
                   misses, w_entry, w_queries, next_id, runs, ghosts>>

\* the return of wait_for_jobs_to_complete to its caller
WaitReturn ==
    /\ pc = "w_ret"
    /\ pc' = ReturnPc(wret)
    /\ wret' = "none"
    /\ w_sleeps' = 0
    /\ w_queries' = FALSE
    /\ misses' = EmptyFn
    /\ w_entry' = NoEntry
    /\ UNCHANGED <<config, learner, alive, feed, pending_tasks, deployed_tasks, completed_tasks,
                   deploying, cluster, task_to_move, polled, last_query,
                   next_id, runs, ghosts>>

NotWaiting == UNCHANGED waiting

(* --------------------------------- run --------------------------------- *)
\* the position reached when housekeeping is over
AfterHousekeeping == IF policy = "batch" THEN "first_arrival" ELSE "loop_test"

\* an exception leaves run(): the frame is gone, nothing is put back
Raise(what) ==
    /\ pc' = "crashed"
    /\ failure' = what
    /\ lost' = IF curr_task = NoTask THEN lost ELSE lost \cup {curr_task}
    /\ curr_task' = NoTask
    /\ roles_done' = 0

\* run(clear, experiment_replication[, wait_historical]): lines 260-263,
\* 411-420, 509-512, entered with the control thread at `at`
RunFrom(at) ==
    /\ pc = at
    /\ runs < MaxRuns
    /\ runs' = runs + 1
    /\ alive' = TRUE
    /\ \E clear \in BOOLEAN, wait_historical \in BOOLEAN :
        pc' = IF policy = "batch" /\ wait_historical
              THEN (IF clear THEN "hk_list_clear" ELSE "hk_list")
              ELSE IF clear THEN "clear_list" ELSE AfterHousekeeping
    /\ iter_log' = <<>>
    /\ UNCHANGED <<config, learner, feed, pending_tasks, deployed_tasks, completed_tasks,
                   deploying, cluster, next_id, lost, failure, admit_mark>>
    /\ NotWaiting

\* the first call of run() in the process
RunEntry == RunFrom("idle")

\* a further call of run() in the same process, after the previous one returned;
\* the task collections are class attributes (lines 140-144), so they are kept
RunAgain == RunFrom("done")

\* (HkListUncaught: the listing of line 413 outside the try block of lines 412-422)
HkListUncaught ==
    /\ pc \in {"hk_list", "hk_list_clear"}
    /\ \E ok \in BOOLEAN :
        IF ok
        THEN /\ EnterWait(IF pc = "hk_list_clear" THEN "hk_clear" ELSE "hk", cluster_jobs)
             /\ UNCHANGED <<deploying, lost, failure>>
        ELSE /\ Raise("hk_list")
             /\ UNCHANGED deployed_tasks
             /\ NotWaiting
    /\ UNCHANGED <<config, learner, alive, feed, pending_tasks, completed_tasks,
                   cluster, next_id, runs, iter_log, admit_mark>>

\* (HkListThenClear: the historical wait in a try block of its own, so that the
\* clear step follows a listing that raised)
HkListThenClear ==
    /\ pc \in {"hk_list", "hk_list_clear"}
    /\ \E ok \in BOOLEAN :
        IF ok
        THEN /\ EnterWait(IF pc = "hk_list_clear" THEN "hk_clear" ELSE "hk", cluster_jobs)
             /\ UNCHANGED failure
        ELSE /\ pc' = IF pc = "hk_list_clear" THEN "clear_list" ELSE "first_arrival"
             /\ failure' = "hk_list"
             /\ UNCHANGED deployed_tasks
             /\ NotWaiting
    /\ UNCHANGED <<config, learner, alive, feed, pending_tasks, completed_tasks, deploying,
                   cluster, next_id, runs, iter_log, lost, admit_mark>>

\* BatchOrchestrator.run lines 413-416 (and 421-422 when the listing raises):
\* list the jobs of the namespace and wait for them
HkList ==
    /\ pc \in {"hk_list", "hk_list_clear"}
    /\ \E ok \in BOOLEAN :
        IF ok
        THEN /\ EnterWait(IF pc = "hk_list_clear" THEN "hk_clear" ELSE "hk", cluster_jobs)
             /\ UNCHANGED failure
        ELSE /\ pc' = "first_arrival"
             /\ failure' = "hk_list"
             /\ UNCHANGED deployed_tasks
             /\ NotWaiting
    /\ UNCHANGED <<config, learner, alive, feed, pending_tasks, completed_tasks, deploying,
                   cluster, next_id, runs, iter_log, lost, admit_mark>>

\* _clear_jobs line 196: list the jobs; outside the batch policy's try block
\* (lines 412-422) an exception of the listing leaves run()
ClearList ==
    /\ pc = "clear_list"
    /\ \E ok \in BOOLEAN :
        IF ok
        THEN /\ to_delete' = cluster_jobs
             /\ pc' = "clear_del"
             /\ UNCHANGED <<deploying, lost, failure>>
        ELSE /\ to_delete' = {}
             /\ IF policy = "batch"
                THEN /\ pc' = "first_arrival"
                     /\ failure' = "list"
                     /\ UNCHANGED <<deploying, lost>>
                ELSE Raise("list")
    /\ UNCHANGED <<config, learner, alive, feed, pending_tasks, deployed_tasks, completed_tasks,
                   cluster_jobs, next_id, runs, iter_log, admit_mark>>
    /\ NotWaiting

\* _clear_jobs lines 196-207: delete one job; a failure is only logged
ClearDelete ==
    /\ pc = "clear_del"
    /\ IF to_delete = {}
       THEN /\ pc' = AfterHousekeeping
            /\ UNCHANGED <<cluster, failure>>
       ELSE \E job \in to_delete : \E ok \in BOOLEAN :
            /\ to_delete' = to_delete \ {job}
            /\ cluster_jobs' = IF ok THEN cluster_jobs \ {job} ELSE cluster_jobs
            /\ failure' = IF ok THEN failure ELSE "delete"
            /\ pc' = pc
    /\ UNCHANGED <<config, learner, alive, feed, pending_tasks, deployed_tasks, completed_tasks,
                   deploying, next_id, runs, iter_log, lost, admit_mark>>
    /\ NotWaiting

\* (LoopTestIgnoreAlive: the loop test without its read of _alive)
LoopTestIgnoreAlive ==
    /\ pc = "loop_test"
    /\ \E within_duration \in BOOLEAN :
        pc' = IF within_duration THEN "admit" ELSE "stop_call"
    /\ UNCHANGED <<config, learner, alive, feed, pending_tasks, deployed_tasks, completed_tasks,
                   deploying, cluster, next_id, runs, ghosts>>
    /\ NotWaiting

\* lines 264 and 513: while self._alive and time.time() - start_time < duration
LoopTest ==
    /\ pc = "loop_test"
    /\ \E within_duration \in BOOLEAN :
        pc' = IF alive /\ within_duration THEN "admit" ELSE "stop_call"
    /\ UNCHANGED <<config, learner, alive, feed, pending_tasks, deployed_tasks, completed_tasks,
                   deploying, cluster, next_id, runs, ghosts>>
    /\ NotWaiting

\* (FirstArrivalNoWait: the admission starts whether or not the feed holds an arrival)
FirstArrivalNoWait ==
    /\ pc = "first_arrival"
    /\ pc' = "admit"
    /\ UNCHANGED <<config, learner, alive, feed, pending_tasks, deployed_tasks, completed_tasks,
                   deploying, cluster, next_id, runs, ghosts>>
    /\ NotWaiting

\* line 428: while self._arrival_generator.arrivals.qsize() == 0; _alive is not read
FirstArrival ==
    /\ pc = "first_arrival"
    /\ pc' = IF Len(arrivals) = 0 THEN "first_sleep" ELSE "admit"
    /\ UNCHANGED <<config, learner, alive, feed, pending_tasks, deployed_tasks, completed_tasks,
                   deploying, cluster, next_id, runs, ghosts>>
    /\ NotWaiting

\* lines 429-430: the sleep of the batch policy's wait for the first arrival
FirstSleep ==
    /\ pc = "first_sleep"
    /\ pc' = "first_arrival"
    /\ UNCHANGED <<config, learner, alive, feed, pending_tasks, deployed_tasks, completed_tasks,
                   deploying, cluster, next_id, runs, ghosts>>
    /\ NotWaiting

\* (AdmittedTaskPutFirst: the task put into pending_tasks before
\* _optimize_epochs sums the queue, so that its own request counts)
AdmittedTaskPutFirst(arrival) ==
    IF policy = "optimized"
    THEN OptimizeEpochs(GenerateTask(arrival, next_id),
                        Put(pending_tasks, GenerateTask(arrival, next_id)), total_time)
    ELSE GenerateTask(arrival, next_id)

\* lines 269, 353, 435, 518-524: the task built for an arrival; the
\* budget-adaptive policy rewrites its epochs before the put
AdmittedTask(arrival) ==
    IF policy = "optimized"
    THEN OptimizeEpochs(GenerateTask(arrival, next_id), pending_tasks, total_time)
    ELSE GenerateTask(arrival, next_id)

\* (AdmitDropsTask: the arrival is taken and its task is not put)
AdmitDropsTask ==
    /\ pc = "admit"
    /\ IF Len(arrivals) = 0
       THEN /\ pc' = "deploy_test"
            /\ admit_mark' = next_id
            /\ UNCHANGED <<arrivals, next_id>>
       ELSE /\ arrivals' = Tail(arrivals)
            /\ next_id' = next_id + 1
            /\ pc' = pc
            /\ UNCHANGED admit_mark
    /\ UNCHANGED <<config, learner, alive, arrived, pending_tasks, deployed_tasks, completed_tasks,
                   deploying, cluster, runs, iter_log, lost, failure>>
    /\ NotWaiting

\* lines 267-274, 433-437, 516-526: the admission loop, one arrival per step:
\* take the arrival, build its task, put it into pending_tasks; the loop ends
\* when the queue of arrivals is empty
Admit ==
    /\ pc = "admit"
    /\ IF Len(arrivals) = 0
       THEN /\ pc' = "deploy_test"
            /\ admit_mark' = next_id
            /\ UNCHANGED <<arrivals, pending_tasks, next_id>>
       ELSE /\ arrivals' = Tail(arrivals)
            /\ pending_tasks' = Put(pending_tasks, AdmittedTask(Head(arrivals)))
            /\ next_id' = next_id + 1
            /\ pc' = pc
            /\ UNCHANGED admit_mark
    /\ UNCHANGED <<config, learner, alive, arrived, deployed_tasks, completed_tasks, deploying,
                   cluster, runs, iter_log, lost, failure>>
    /\ NotWaiting

\* (DeployTestLeavesOne: the deploy loop's condition as qsize() > 1)
DeployTestLeavesOne ==
    /\ pc = "deploy_test"
    /\ IF Len(pending_tasks) > 1
       THEN /\ curr_task' = GetItem(pending_tasks)
            /\ pending_tasks' = GetRest(pending_tasks)
            /\ iter_log' = Append(iter_log, GetItem(pending_tasks))
            /\ pc' = "prepare"
            /\ UNCHANGED deployed_tasks
            /\ NotWaiting
       ELSE /\ UNCHANGED <<curr_task, pending_tasks>>
            /\ iter_log' = <<>>
            /\ IF policy = "batch" /\ parallel_execution
               THEN EnterWait("final", {})
               ELSE /\ pc' = IF policy = "batch" THEN "stop_call" ELSE "iter_sleep"
                    /\ UNCHANGED deployed_tasks
                    /\ NotWaiting
    /\ UNCHANGED <<config, learner, alive, feed, completed_tasks, roles_done, cluster,
                   next_id, runs, lost, failure, admit_mark>>

\* (DeployTestBlind: the pop of line 278 without the test of line 277; get() on
\* an empty PriorityQueue blocks)
DeployTestBlind ==
    /\ pc = "deploy_test"
    /\ IF Len(pending_tasks) > 0
       THEN /\ curr_task' = GetItem(pending_tasks)
            /\ pending_tasks' = GetRest(pending_tasks)
            /\ iter_log' = Append(iter_log, GetItem(pending_tasks))
            /\ pc' = "prepare"
       ELSE /\ UNCHANGED <<curr_task, pending_tasks, iter_log>>
            /\ pc' = "blocked"
    /\ UNCHANGED <<config, learner, alive, feed, deployed_tasks, completed_tasks, roles_done,
                   cluster, next_id, runs, lost, failure, admit_mark>>
    /\ NotWaiting

\* lines 277-279, 441-444, 529-531: the deploy loop's test and pop; at the end
\* of the loop, lines 298-300 and 550-552 (the sleep of the alive loop) or
\* lines 466-470 (the batch policy's bulk wait and stop)
DeployTest ==
    /\ pc = "deploy_test"
    /\ IF Len(pending_tasks) > 0
       THEN /\ curr_task' = GetItem(pending_tasks)
            /\ pending_tasks' = GetRest(pending_tasks)
            /\ iter_log' = Append(iter_log, GetItem(pending_tasks))
            /\ pc' = "prepare"
            /\ UNCHANGED deployed_tasks
            /\ NotWaiting
       ELSE /\ UNCHANGED <<curr_task, pending_tasks>>
            /\ iter_log' = <<>>
            /\ IF policy = "batch" /\ parallel_execution
               THEN EnterWait("final", {})
               ELSE /\ pc' = IF policy = "batch" THEN "stop_call" ELSE "iter_sleep"
                    /\ UNCHANGED deployed_tasks
                    /\ NotWaiting
    /\ UNCHANGED <<config, learner, alive, feed, completed_tasks, roles_done, cluster,
                   next_id, runs, lost, failure, admit_mark>>

\* lines 282-285 (80-105, 70-77): render the config map of every role; a task
\* that is neither federated nor distributed makes render_template raise
Prepare ==
    /\ pc = "prepare"
    /\ IF CanRender(curr_task)
       THEN /\ pc' = "cfgmaps"
            /\ UNCHANGED <<deploying, lost, failure>>
       ELSE Raise("render")
    /\ UNCHANGED <<config, learner, alive, feed, pending_tasks, deployed_tasks, completed_tasks,
                   cluster, next_id, runs, iter_log, admit_mark>>
    /\ NotWaiting

\* (CreateConfigMapFirstOnly: the loop of lines 213-216 left after its first create)
CreateConfigMapFirstOnly ==
    /\ pc = "cfgmaps"
    /\ \E ok \in BOOLEAN :
        IF ok
        THEN /\ roles_done' = roles_done + 1
             /\ pc' = "submit"
             /\ UNCHANGED <<curr_task, lost, failure>>
        ELSE Raise("configmap")
    /\ UNCHANGED <<config, learner, alive, feed, pending_tasks, deployed_tasks, completed_tasks,
                   cluster, next_id, runs, iter_log, admit_mark>>
    /\ NotWaiting

\* lines 286, 209-216: create_namespaced_config_map for the next role; it may raise
CreateConfigMap ==
    /\ pc = "cfgmaps"
    /\ \E ok \in BOOLEAN :
        IF ok
        THEN /\ roles_done' = roles_done + 1
             /\ pc' = IF roles_done' = Len(Roles) THEN "submit" ELSE "cfgmaps"
             /\ UNCHANGED <<curr_task, lost, failure>>
        ELSE Raise("configmap")
    /\ UNCHANGED <<config, learner, alive, feed, pending_tasks, deployed_tasks, completed_tasks,
                   cluster, next_id, runs, iter_log, admit_mark>>
    /\ NotWaiting

\* (SubmitAddsFirst: the task added to deployed_tasks before client.create)
SubmitAddsFirst ==
    /\ pc = "submit"
    /\ \E ok \in BOOLEAN :
        IF ok
        THEN /\ cluster_jobs' = cluster_jobs \cup {JobName(curr_task)}
             /\ deployed_tasks' = deployed_tasks \cup {curr_task}
             /\ curr_task' = NoTask
             /\ roles_done' = 0
             /\ pc' = IF parallel_execution THEN "deploy_test" ELSE "seq_wait"
             /\ UNCHANGED <<lost, failure>>
        ELSE /\ Raise("submit")
             /\ deployed_tasks' = deployed_tasks \cup {curr_task}
             /\ UNCHANGED cluster_jobs
    /\ UNCHANGED <<config, learner, alive, feed, pending_tasks, completed_tasks, to_delete,
                   next_id, runs, iter_log, admit_mark>>
    /\ NotWaiting

\* (SubmitThenWait: the wait of lines 294-296 taken whatever parallel_execution is)
SubmitThenWait ==
    /\ pc = "submit"
    /\ \E ok \in BOOLEAN :
        IF ok
        THEN /\ cluster_jobs' = cluster_jobs \cup {JobName(curr_task)}
             /\ deployed_tasks' = deployed_tasks \cup {curr_task}
             /\ curr_task' = NoTask
             /\ roles_done' = 0
             /\ pc' = "seq_wait"
             /\ UNCHANGED <<lost, failure>>
        ELSE /\ Raise("submit")
             /\ UNCHANGED <<cluster_jobs, deployed_tasks>>
    /\ UNCHANGED <<config, learner, alive, feed, pending_tasks, completed_tasks, to_delete,
                   next_id, runs, iter_log, admit_mark>>
    /\ NotWaiting

\* lines 288-291: construct the job, submit it, add the task to deployed_tasks;
\* a failed submission raises
Submit ==
    /\ pc = "submit"
    /\ \E ok \in BOOLEAN :
        IF ok
        THEN /\ cluster_jobs' = cluster_jobs \cup {JobName(curr_task)}
             /\ deployed_tasks' = deployed_tasks \cup {curr_task}
             /\ curr_task' = NoTask
             /\ roles_done' = 0
             /\ pc' = IF parallel_execution THEN "deploy_test" ELSE "seq_wait"
             /\ UNCHANGED <<lost, failure>>
        ELSE /\ Raise("submit")
             /\ UNCHANGED <<cluster_jobs, deployed_tasks>>
    /\ UNCHANGED <<config, learner, alive, feed, pending_tasks, completed_tasks, to_delete,
                   next_id, runs, iter_log, admit_mark>>
    /\ NotWaiting

\* (SeqWaitSkipped: sequential mode going on to the next pop without a wait)
SeqWaitSkipped ==
    /\ pc = "seq_wait"
    /\ pc' = "deploy_test"
    /\ UNCHANGED <<config, learner, alive, feed, pending_tasks, deployed_tasks, completed_tasks,
                   deploying, cluster, next_id, runs, ghosts>>
    /\ NotWaiting

\* lines 295-296, 461-462, 547-548: the blocking wait of sequential mode
SeqWait ==
    /\ pc = "seq_wait"
    /\ EnterWait("seq", {})
    /\ UNCHANGED <<config, learner, alive, feed, pending_tasks, completed_tasks, deploying,
                   cluster, next_id, runs, ghosts>>

\* lines 298-300, 550-552: sleep between two iterations of the alive loop
IterSleep ==
    /\ pc = "iter_sleep"
    /\ pc' = "loop_test"
    /\ UNCHANGED <<config, learner, alive, feed, pending_tasks, deployed_tasks, completed_tasks,
                   deploying, cluster, next_id, runs, ghosts>>
    /\ NotWaiting

\* (StopCallNoWait: run() returning after self.stop() without the bulk wait)
StopCallNoWait ==
    /\ pc = "stop_call"
    /\ alive' = FALSE
    /\ pc' = "done"
    /\ UNCHANGED <<config, learner, feed, pending_tasks, deployed_tasks, completed_tasks,
                   deploying, cluster, next_id, runs, ghosts>>
    /\ NotWaiting

\* lines 301-304, 553-556: self.stop(), then the bulk wait of parallel mode;
\* lines 468-470: the batch policy's self.stop() ends run()
StopCall ==
    /\ pc = "stop_call"
    /\ alive' = FALSE
    /\ IF policy # "batch" /\ parallel_execution
       THEN EnterWait("final", {})
       ELSE /\ pc' = "done"
            /\ UNCHANGED deployed_tasks
            /\ NotWaiting
    /\ UNCHANGED <<config, learner, feed, pending_tasks, completed_tasks, deploying, cluster,
                   next_id, runs, ghosts>>

(* ----------------------------- environment ----------------------------- *)
\* The generator thread puts an arrival into its queue. The control thread
\* reads that queue at lines 267, 428, 433 and 516 only, so a put is
\* interleaved at the positions from which the next step may read it.
ArrivePoints == {"first_arrival", "admit", "deploy_test"}

ArriveB(bound) ==
    /\ pc \in ArrivePoints
    /\ arrived < bound
    /\ \E a \in ArrivalInputs : arrivals' = Append(arrivals, a)
    /\ arrived' = arrived + 1
    /\ UNCHANGED <<config, learner, alive, pc, pending_tasks, deployed_tasks, completed_tasks,
                   deploying, cluster, next_id, runs, ghosts>>
    /\ NotWaiting

Arrive == ArriveB(MaxArrivals)

\* lines 159-168: stop() called from outside while run() is executing
Stop ==
    /\ pc \notin {"idle", "done", "crashed"}
    /\ alive
    /\ alive' = FALSE
    /\ UNCHANGED <<config, learner, pc, feed, pending_tasks, deployed_tasks, completed_tasks,
                   deploying, cluster, next_id, runs, ghosts>>
    /\ NotWaiting

\* the steps of the control thread, but for the sleep of the batch policy's
\* wait for a first arrival
Steps ==
    \/ RunEntry
    \/ HkList
    \/ ClearList
    \/ ClearDelete
    \/ LoopTest
    \/ FirstArrival
    \/ Admit
    \/ DeployTest
    \/ Prepare
    \/ CreateConfigMap
    \/ Submit
    \/ SeqWait
    \/ IterSleep
    \/ StopCall
    \/ WaitTest
    \/ WaitQuery
    \/ WaitUpdate
    \/ WaitSleep
    \/ WaitReturn

\* the steps of the control thread
Control == Steps \/ FirstSleep

Next == Control \/ Arrive \/ Stop

Spec == Init /\ [][Next]_vars

\* the control thread keeps executing as long as it has a step to take; the
\* generator and the caller of stop() are under no obligation
SpecFair == Init /\ [][Next]_vars /\ WF_vars(Control)

\* the process calls run() more than once
NextRerun == Next \/ RunAgain

SpecRerun == Init /\ [][NextRerun]_vars

(* ------------------- the priority queue taken alone -------------------- *)
\* sequences over S of length at most n
RECURSIVE SeqsUpTo(_, _)
SeqsUpTo(S, n) ==
    IF n = 0 THEN {<<>>}
    ELSE LET shorter == SeqsUpTo(S, n - 1)
         IN shorter \cup {Append(q, x) : q \in {r \in shorter : Len(r) = n - 1}, x \in S}

\* any arrivals wait to be put; nothing else of the orchestrator runs
InitQueue ==
    /\ policy = "simulated"
    /\ total_time = 0
    /\ NoSampling
    /\ namespace = QueryNamespace
    /\ parallel_execution = FALSE
    /\ pc = "queue"
    /\ arrivals \in SeqsUpTo(ArrivalInputs, MaxQueue)
    /\ arrived = Len(arrivals)
    /\ cluster_jobs = {}
    /\ Fresh

\* lines 268-274: a put of the next arrival's task
QueuePut ==
    /\ pc = "queue"
    /\ Len(arrivals) > 0
    /\ arrivals' = Tail(arrivals)
    /\ pending_tasks' = Put(pending_tasks, GenerateTask(Head(arrivals), next_id))
    /\ next_id' = next_id + 1
    /\ iter_log' = <<>>
    /\ UNCHANGED <<config, learner, alive, pc, arrived, deployed_tasks, completed_tasks,
                   deploying, cluster, runs, lost, failure, admit_mark>>
    /\ NotWaiting

\* lines 277-278: a get; iter_log holds the gets made since the latest put
QueueGet ==
    /\ pc = "queue"
    /\ Len(pending_tasks) > 0
    /\ pending_tasks' = GetRest(pending_tasks)
    /\ iter_log' = Append(iter_log, GetItem(pending_tasks))
    /\ UNCHANGED <<config, learner, alive, pc, feed, deployed_tasks, completed_tasks,
                   deploying, cluster, next_id, runs, lost, failure, admit_mark>>
    /\ NotWaiting

NextQueue == QueuePut \/ QueueGet

SpecQueue == InitQueue /\ [][NextQueue]_vars

(* -------------------- the polling loop taken alone --------------------- *)
\* the tasks a caller may have deployed
WaitTasks ==
    {[id |-> 1, priority |-> 2, seq |-> 1, kind |-> "distributed", epochs |-> 10],
     [id |-> 2, priority |-> 1, seq |-> 2, kind |-> "federated", epochs |-> 5]}

\* job names a caller may pass as `others`: two names carrying the same uuid
\* (identifier 0), one carrying another (identifier 3), one carrying none
SeedNames ==
    {[name |-> "trainjob", uuid |-> 0], [name |-> "configmap", uuid |-> 0],
     [name |-> "trainjob", uuid |-> 3], [name |-> "dashboard", uuid |-> -1]}

\* a call wait_for_jobs_to_complete(others) with any deployed_tasks, just entered
InitWait ==
    /\ policy = "batch"
    /\ total_time = 0
    /\ NoSampling
    /\ namespace = QueryNamespace
    /\ parallel_execution = TRUE
    /\ alive = TRUE
    /\ pc = "w_test"
    /\ wret = "call"
    /\ arrivals = <<>>
    /\ arrived = 0
    /\ pending_tasks = <<>>
    /\ completed_tasks = {}
    /\ curr_task = NoTask
    /\ roles_done = 0
    /\ cluster_jobs = {}
    /\ to_delete = {}
    /\ task_to_move = {}
    /\ polled = {}
    /\ last_query = NoQuery
    /\ w_sleeps = 0
    /\ w_queries = FALSE
    /\ \E before \in SUBSET WaitTasks, others \in {{}, ForeignNames, SeedNames} :
        /\ deployed_tasks = before \cup Seeded(others)
        /\ w_entry = [others |-> others, deployed |-> before,
                      completed |-> {}, pending |-> <<>>]
    /\ misses = [i \in Ids(deployed_tasks) |-> 0]
    /\ next_id = 3
    /\ runs = 1
    /\ iter_log = <<>>
    /\ lost = {}
    /\ failure = "none"
    /\ admit_mark = 3

WaitQueryDeep == WaitQueryB(MaxWaitPolls)

NextWait == WaitTest \/ WaitQueryDeep \/ WaitUpdate \/ WaitSleep \/ WaitReturn

SpecWait == InitWait /\ [][NextWait]_vars

\* the same call when the loop keeps being scheduled: it is the only thread and
\* each of its statements returns (the sleep of line 247 is finite, the status
\* query returns or raises). WaitQueryDeep lets a job report a non-terminal
\* status for MaxWaitPolls rounds at most, then it reports a terminal one.
SpecWaitFair == InitWait /\ [][NextWait]_vars /\ WF_vars(NextWait)

(* ------------------- the epoch budget taken alone ---------------------- *)
\* epochs of the tasks found in pending_tasks and of the arrivals
BacklogEpochs == {1, 10, 50}
BudgetTimes == {-50, 0, 100, 150, 300, 1000}
BudgetInputs == {[priority |-> 1, kind |-> "distributed", epochs |-> e] : e \in BacklogEpochs}

\* the heap made of the tasks of the arrivals a, with identifiers from 1
RECURSIVE HeapOf(_)
HeapOf(a) ==
    IF Len(a) = 0 THEN <<>>
    ELSE Put(HeapOf(SubSeq(a, 1, Len(a) - 1)), GenerateTask(a[Len(a)], Len(a)))

\* the budget-adaptive policy about to admit, with any total_time and any
\* tasks already in pending_tasks (the class attribute may have been filled
\* through another instance)
InitBudget ==
    /\ policy = "optimized"
    /\ parallel_execution = TRUE
    /\ total_time \in BudgetTimes
    /\ NoSampling
    /\ namespace = QueryNamespace
    /\ pc = "admit"
    /\ arrivals \in SeqsUpTo(BudgetInputs, MaxBudgeted)
    /\ arrived = Len(arrivals)
    /\ cluster_jobs = {}
    /\ \E backlog \in SeqsUpTo(BudgetInputs, MaxBacklog) :
        /\ pending_tasks = HeapOf(backlog)
        /\ next_id = Len(backlog) + 1
        /\ admit_mark = Len(backlog) + 1
    /\ alive = TRUE
    /\ wret = "none"
    /\ deployed_tasks = {}
    /\ completed_tasks = {}
    /\ curr_task = NoTask
    /\ roles_done = 0
    /\ to_delete = {}
    /\ task_to_move = {}
    /\ polled = {}
    /\ last_query = NoQuery
    /\ w_sleeps = 0
    /\ misses = EmptyFn
    /\ w_entry = NoEntry
    /\ w_queries = FALSE
    /\ runs = 1
    /\ iter_log = <<>>
    /\ lost = {}
    /\ failure = "none"

\* the admission phase alone
NextBudget == Admit

SpecBudget == InitBudget /\ [][NextBudget]_vars

(* ----------- a feed that holds three arrivals when run() starts --------- *)
ScenarioFeed ==
    <<[priority |-> 3, kind |-> "federated", epochs |-> 5],
      [priority |-> 1, kind |-> "distributed", epochs |-> 10],
      [priority |-> 2, kind |-> "distributed", epochs |-> 50]>>

InitLoaded ==
    /\ policy \in Policies
    /\ parallel_execution \in BOOLEAN
    /\ total_time \in (IF policy = "optimized" THEN TotalTimes ELSE {0})
    /\ NoSampling
    /\ namespace = QueryNamespace
    /\ pc = "idle"
    /\ arrivals = ScenarioFeed
    /\ arrived = Len(ScenarioFeed)
    /\ cluster_jobs \in {{}, ForeignNames}
    /\ Fresh

\* further arrivals may follow the three
ArriveLate == ArriveB(MaxLoaded)

\* (the feed is not empty when the batch policy tests it: no sleep)
NextLoaded == Steps \/ ArriveLate \/ Stop

SpecLoaded == InitLoaded /\ [][NextLoaded]_vars

(* ------------- the run from the end of housekeeping onwards ------------- *)
\* run() has set _alive (lines 260, 411, 509) and finished its housekeeping in
\* an empty namespace
AfterStartup ==
    /\ policy \in Policies
    /\ parallel_execution \in BOOLEAN
    /\ total_time \in (IF policy = "optimized" THEN TotalTimes ELSE {0})
    /\ NoSampling
    /\ pc = AfterHousekeeping
    /\ alive = TRUE
    /\ runs = 1
    /\ arrivals = <<>>
    /\ arrived = 0
    /\ cluster_jobs = {}
    /\ wret = "none"
    /\ pending_tasks = <<>>
    /\ deployed_tasks = {}
    /\ completed_tasks = {}
    /\ curr_task = NoTask
    /\ roles_done = 0
    /\ to_delete = {}
    /\ task_to_move = {}
    /\ polled = {}
    /\ last_query = NoQuery
    /\ w_sleeps = 0
    /\ misses = EmptyFn
    /\ w_entry = NoEntry
    /\ w_queries = FALSE
    /\ next_id = 1
    /\ iter_log = <<>>
    /\ lost = {}
    /\ failure = "none"
    /\ admit_mark = 1

\* the configuration names the namespace the status query names
InitLive == namespace = QueryNamespace /\ AfterStartup

\* the configuration names any namespace
InitNamespace == namespace \in Namespaces /\ AfterStartup

\* the steps of the control thread after housekeeping
LoopSteps ==
    \/ LoopTest
    \/ FirstArrival
    \/ FirstSleep
    \/ Admit
    \/ DeployTest
    \/ Prepare
    \/ CreateConfigMap
    \/ Submit
    \/ SeqWait
    \/ IterSleep
    \/ StopCall
    \/ WaitTest
    \/ WaitQuery
    \/ WaitUpdate
    \/ WaitSleep
    \/ WaitReturn

ArriveLive == ArriveB(MaxLive)

NextLive == LoopSteps \/ ArriveLive \/ Stop

\* the test of lines 264 and 513 when it ends the loop
LoopEnds == LoopTest /\ pc' = "stop_call"

\* The control thread keeps executing as long as it has a step to take; the
\* generator and the caller of stop() are under no obligation. The duration is
\* finite and every iteration sleeps (lines 300, 552): an alive loop that keeps
\* reaching its test finds the duration elapsed at some point. WaitQuery lets a
\* job report a non-terminal status for MaxPolls rounds at most.
SpecLive == InitLive /\ [][NextLive]_vars /\ WF_vars(LoopSteps) /\ SF_vars(LoopEnds)

\* the same for every configured namespace
SpecNamespace ==
    InitNamespace /\ [][NextLive]_vars /\ WF_vars(LoopSteps) /\ SF_vars(LoopEnds)

(* ------ the batch policy run with wait_historical=True, clear=True ------ *)
\* BatchOrchestrator.run(clear=True, wait_historical=True) has set _alive (line
\* 411) and is at line 413
InitHousekeeping ==
    /\ policy = "batch"
    /\ parallel_execution \in BOOLEAN
    /\ total_time = 0
    /\ NoSampling
    /\ namespace = QueryNamespace
    /\ pc = "hk_list_clear"
    /\ alive = TRUE
    /\ runs = 1
    /\ arrivals = <<>>
    /\ arrived = 0
    /\ cluster_jobs \in {{}, ForeignNames}
    /\ wret = "none"
    /\ pending_tasks = <<>>
    /\ deployed_tasks = {}
    /\ completed_tasks = {}
    /\ curr_task = NoTask
    /\ roles_done = 0
    /\ to_delete = {}
    /\ task_to_move = {}
    /\ polled = {}
    /\ last_query = NoQuery
    /\ w_sleeps = 0
    /\ misses = EmptyFn
    /\ w_entry = NoEntry
    /\ w_queries = FALSE
    /\ next_id = 1
    /\ iter_log = <<>>
    /\ lost = {}
    /\ failure = "none"
    /\ admit_mark = 1

\* the steps of the batch policy's control thread
BatchSteps ==
    \/ HkList
    \/ ClearList
    \/ ClearDelete
    \/ FirstArrival
    \/ FirstSleep
    \/ Admit
    \/ DeployTest
    \/ Prepare
    \/ CreateConfigMap
    \/ Submit
    \/ SeqWait
    \/ StopCall
    \/ WaitTest
    \/ WaitQuery
    \/ WaitUpdate
    \/ WaitSleep
    \/ WaitReturn

NextHousekeeping == BatchSteps \/ Arrive \/ Stop

SpecHousekeeping == InitHousekeeping /\ [][NextHousekeeping]_vars

(* ------------------- data_samplers.py: get_sampler --------------------- *)
\* the sampler method names get_sampler knows (lines 468-484)
KnownMethods ==
    {"uniform", "q sampler", "limit labels", "limit labels flex", "n labels", "dirichlet"}
\* the class get_sampler constructs for a known name
SamplerClass(method) ==
    CASE method = "uniform" -> "UniformSampler"
      [] method = "q sampler" -> "Probability_q_Sampler"
      [] method = "limit labels" -> "LimitLabelsSampler"
      [] method = "limit labels flex" -> "LimitLabelsSamplerFlex"
      [] method = "n labels" -> "N_Labels"
      [] method = "dirichlet" -> "DirichletSampler"
\* names args.get_sampler() may give: the known ones and one that is not
Methods == KnownMethods \cup {"round robin"}

\* DistributedSampler.__init__ (called at line 457) with drop_last False:
\* num_samples = ceil(len(dataset) / num_replicas), total_size = num_samples * num_replicas
NumSamples(n, R) == (n + R - 1) \div R
TotalSize(n, R) == NumSamples(n, R) * R

\* list(range(n))
RECURSIVE Range(_)
Range(n) == IF n = 0 THEN <<>> ELSE Range(n - 1) \o <<n - 1>>

\* seq[start:stop:step] for start >= 0 and step > 0 (positions count from 0)
RECURSIVE Slice(_, _, _, _)
Slice(seq, start, stop, step) ==
    IF start >= Min(stop, Len(seq)) THEN <<>>
    ELSE <<seq[start + 1]>> \o Slice(seq, start + step, stop, step)

\* (UniformIndicesOwnSamples: the slice stopped at num_samples instead of total_size)
UniformIndicesOwnSamples(n, R, rank) == Slice(Range(n), rank, NumSamples(n, R), R)

\* lines 458-459: indices[self.rank:self.total_size:self.num_replicas]
UniformIndices(n, R, rank) == Slice(Range(n), rank, TotalSize(n, R), R)

\* what a call of get_sampler ends with: a sampler object, None, or an exception
Sampler(class, indices) == [class |-> class, indices |-> indices]

\* lines 461-488. The indices of the samplers other than UniformSampler are
\* not modelled. In the else branch the warning is written by
\* args().get_logger(): args is called, which raises TypeError unless the
\* object passed as args is callable.
get_sampler(args, rank) ==
    IF ~args.distributed THEN Sampler("None", <<>>)
    ELSE IF args.method = "uniform"
         THEN Sampler("UniformSampler", UniformIndices(args.length, args.world_size, rank))
    ELSE IF args.method \in KnownMethods THEN Sampler(SamplerClass(args.method), <<>>)
    ELSE IF ~args.callable THEN Sampler("TypeError", <<>>)
    ELSE Sampler("UniformSampler", UniformIndices(args.length, args.world_size, rank))

\* the args of a learner process and the length of its dataset
SamplerArgs ==
    [distributed : BOOLEAN, method : Methods, callable : BOOLEAN,
     world_size : 1..MaxReplicas, length : 0..MaxItems]

\* no orchestrator runs; the learners are about to ask for their samplers
InitSampler ==
    /\ policy = "simulated"
    /\ parallel_execution = FALSE
    /\ total_time = 0
    /\ namespace = QueryNamespace
    /\ pc = "sampling"
    /\ arrivals = <<>>
    /\ arrived = 0
    /\ cluster_jobs = {}
    /\ Fresh
    /\ sampler_args \in SamplerArgs
    /\ samplers = EmptyFn

\* the learner of one rank calls get_sampler(dataset, args)
GetSampler ==
    /\ pc = "sampling"
    /\ \E rank \in (0..(sampler_args.world_size - 1)) \ DOMAIN samplers :
        samplers' = [r \in DOMAIN samplers \cup {rank} |->
                        IF r = rank THEN get_sampler(sampler_args, rank) ELSE samplers[r]]
    /\ UNCHANGED <<config, sampler_args, alive, pc, feed, pending_tasks, deployed_tasks,
                   completed_tasks, deploying, cluster, next_id, runs, ghosts>>
    /\ NotWaiting

NextSampler == GetSampler

SpecSampler == InitSampler /\ [][NextSampler]_vars

(* ------------------------------ properties ----------------------------- *)
PendingSet == SeqToSet(pending_tasks)
WaitPcs == {"w_test", "w_for", "w_sleep", "w_ret"}
\* a is yielded before b: lower priority value first, admission order on ties
Before(a, b) ==
    \/ a.priority < b.priority
    \/ a.priority = b.priority /\ a.id < b.id

\* C1: no task identifier is in more than one of pending, deployed and
\* completed: the three collections are pairwise disjoint by identifier.
C1_PairwiseDisjoint ==
    /\ Ids(PendingSet) \cap Ids(deployed_tasks) = {}
    /\ Ids(PendingSet) \cap Ids(completed_tasks) = {}
    /\ Ids(deployed_tasks) \cap Ids(completed_tasks) = {}

\* C2: |pending| + |deployed| + |completed| equals the number of tasks
\* admitted so far minus the tasks explicitly dropped on a construction error
\* (the code drops none explicitly), at every instant.
C2_Conservation ==
    Len(pending_tasks) + Cardinality(deployed_tasks) + Cardinality(completed_tasks)
        = next_id - 1

\* C3: successive gets yield the queued tasks in non-decreasing priority
\* order, tasks of equal priority in the order they were admitted; what is
\* still queued comes after everything yielded since the latest put.
C3_QueueOrder ==
    /\ \A i, j \in 1..Len(iter_log) : i < j => Before(iter_log[i], iter_log[j])
    /\ \A i \in 1..Len(iter_log) : \A t \in PendingSet : Before(iter_log[i], t)

C3_Witness ==
    /\ pc = "queue"
    /\ Len(iter_log) = 4
    /\ iter_log[1].id > iter_log[2].id
    /\ iter_log[2].priority = iter_log[3].priority

\* C4: within one iteration the queued tasks are popped for submission in
\* strict priority order, nothing is admitted while the deploy loop (with its
\* waits) runs, and when a later admission phase starts no task of an earlier
\* one is left in pending.
DeployPcs == {"deploy_test", "prepare", "cfgmaps", "submit", "seq_wait"}
C4_IterationOrder ==
    /\ \A i, j \in 1..Len(iter_log) : i < j => Before(iter_log[i], iter_log[j])
    /\ \A i \in 1..Len(iter_log) : \A t \in PendingSet : Before(iter_log[i], t)
    /\ (pc \in DeployPcs \/ (pc \in WaitPcs /\ wret = "seq")) =>
          /\ next_id = admit_mark
          /\ \A t \in PendingSet \cup SeqToSet(iter_log) : t.id < admit_mark
    /\ pc = "admit" => \A t \in PendingSet : t.id >= admit_mark

C4_Witness ==
    /\ policy = "simulated"
    /\ ~parallel_execution
    /\ Len(iter_log) = 3
    /\ <<iter_log[1].priority, iter_log[2].priority, iter_log[3].priority>> = <<1, 2, 3>>
    /\ <<iter_log[1].id, iter_log[2].id, iter_log[3].id>> = <<2, 3, 1>>
    /\ Ids(completed_tasks) = {1, 2, 3}
    /\ Len(arrivals) = 1

\* C5: while a wait call runs nothing is raised; a task whose status query
\* raised or found no status stays in deployed and is not marked to move; and
\* every task still deployed has been queried in each poll iteration so far.
C5_QueryFailureKeepsTask ==
    /\ wret # "none" => pc \in WaitPcs /\ failure = "none"
    /\ (pc = "w_for" /\ last_query.status \in {"raise", "None"}) =>
          /\ last_query.task \in Ids(deployed_tasks)
          /\ last_query.task \notin Ids(task_to_move)
    /\ pc = "w_for" =>
          \A t \in deployed_tasks \ task_to_move :
              misses[t.id] = w_sleeps + (IF t \in polled THEN 1 ELSE 0)
    /\ pc = "w_sleep" =>
          /\ deployed_tasks = polled \ task_to_move
          /\ \A t \in deployed_tasks : misses[t.id] = w_sleeps + 1

C5_Witness ==
    /\ pc = "w_for"
    /\ last_query.status = "raise"
    /\ w_sleeps = 2
    /\ misses[last_query.task] = 3

\* C6: a queried task is marked to move exactly when its status is Completed,
\* Failed or Succeeded; the update of the same poll iteration puts the marked
\* tasks into completed and takes them out of deployed, the others stay; a
\* task in completed is not queried again.
C6_TerminalMoves ==
    /\ (pc = "w_for" /\ last_query # NoQuery) =>
          (last_query.task \in Ids(task_to_move)
              <=> last_query.status \in {"Completed", "Failed", "Succeeded"})
    /\ pc = "w_sleep" =>
          /\ task_to_move \subseteq completed_tasks
          /\ task_to_move \cap deployed_tasks = {}
          /\ polled \ task_to_move \subseteq deployed_tasks
    /\ pc \in WaitPcs => polled \cap completed_tasks \subseteq task_to_move
    /\ pc = "w_for" => polled \cap completed_tasks = {}

C6_Witness ==
    /\ pc = "w_sleep"
    /\ w_sleeps = 1
    /\ \E t \in task_to_move : t.id = 1
    /\ \E t \in deployed_tasks : t.id = 2

\* C7: a wait call entered with no extra identifiers and deployed empty issues
\* no status query, does not sleep and leaves the three collections as they
\* were: it goes from the loop test straight to its return.
C7_EmptyWaitReturns ==
    (pc \in WaitPcs /\ w_entry.others = {} /\ w_entry.deployed = {}) =>
        /\ pc \in {"w_test", "w_ret"}
        /\ ~w_queries
        /\ w_sleeps = 0
        /\ pending_tasks = w_entry.pending
        /\ deployed_tasks = {}
        /\ completed_tasks = w_entry.completed

C7_Witness ==
    /\ pc = "w_ret"
    /\ wret = "final"
    /\ w_entry.others = {}
    /\ w_entry.deployed = {}

\* C8: a task that was polled n times without a terminal status and then
\* reports a terminal one is moved to completed when exactly n sleeps of the
\* call have elapsed, and nothing is raised.
C8_MovedAfterNSleeps ==
    pc = "w_sleep" =>
        \A t \in task_to_move :
            /\ misses[t.id] = w_sleeps
            /\ t \in completed_tasks
            /\ failure = "none"

C8_Witness ==
    /\ pc = "w_sleep"
    /\ w_sleeps = 5
    /\ \E t \in task_to_move : misses[t.id] = 5 /\ t \in completed_tasks

\* C9: a failed artifact registration or submission does not end run(): the
\* deploy loop goes on with the next pending task.
C9_DeployFailureContinues ==
    ~(pc = "crashed" /\ failure \in {"configmap", "submit"})

\* C10: a task of an unrecognized variant fails alone: run() keeps running
\* and the task is accounted for, not lost.
C10_UnknownVariantKeepsLoop ==
    ~(pc = "crashed" /\ failure = "render") /\ (\A t \in lost : t.kind # "unknown")

\* tasks built by _generate_task (not the historical ones seeded from job names)
Admitted(S) == {t \in S : t.kind # "historical"}

\* C11: in sequential mode the deploy loop pops the next task only when the
\* task submitted before it is in completed: while a task is being prepared
\* or submitted deployed is empty and every task popped earlier in the phase
\* is in completed, and deployed never holds more than one task of the run.
SubmitPcs == {"prepare", "cfgmaps", "submit"}
C11_SequentialOneAtATime ==
    ~parallel_execution =>
        /\ Cardinality(Admitted(deployed_tasks)) <= 1
        /\ pc \in SubmitPcs \cup {"deploy_test"} => deployed_tasks = {}
        /\ pc \in SubmitPcs =>
              /\ iter_log[Len(iter_log)] = curr_task
              /\ \A i \in 1..(Len(iter_log) - 1) : iter_log[i] \in completed_tasks
        /\ pc = "seq_wait" => deployed_tasks = {iter_log[Len(iter_log)]}

C11_Witness ==
    /\ ~parallel_execution
    /\ pc = "submit"
    /\ Len(iter_log) = 2
    /\ iter_log[1] \in completed_tasks

\* C12: in parallel mode, when run() of the continuous or the budget-adaptive
\* policy has returned, deployed is empty and every task whose job was
\* submitted is in completed.
C12_FinalBulkWait ==
    (pc = "done" /\ parallel_execution /\ policy # "batch") =>
        /\ deployed_tasks = {}
        /\ \A id \in 1..(next_id - 1) :
              [uuid |-> id] \in cluster_jobs => id \in Ids(completed_tasks)

C12_Witness ==
    /\ pc = "done"
    /\ parallel_execution
    /\ policy = "optimized"
    /\ Ids(completed_tasks) = {1, 2}

\* C13: the batch policy submits nothing before the feed has held an arrival;
\* the admission phase ends with the feed drained and the whole batch in
\* pending, before the first pop; nothing is admitted afterwards, so arrivals
\* that come later stay in the feed; run() returns with the batch deployed and
\* completed.
BatchBeforeDeploy ==
    {"hk_list", "hk_list_clear", "clear_list", "clear_del", "first_arrival",
     "first_sleep", "admit"}
OwnJobs == {j \in cluster_jobs : j.uuid >= 1}
C13_BatchState ==
    policy = "batch" =>
        /\ (pc \in BatchBeforeDeploy \/ (pc \in WaitPcs /\ wret \in {"hk", "hk_clear"})) =>
              /\ OwnJobs = {}
              /\ Admitted(deployed_tasks) = {}
              /\ iter_log = <<>>
        /\ (pc \in DeployPcs \cup {"stop_call", "done"}
                \/ (pc \in WaitPcs /\ wret \in {"seq", "final"})) =>
              /\ admit_mark >= 2
              /\ next_id = admit_mark
              /\ arrived >= admit_mark - 1
        /\ pc = "done" =>
              /\ pending_tasks = <<>>
              /\ deployed_tasks = {}
              /\ Ids(Admitted(completed_tasks)) = 1..(next_id - 1)
C13_BatchStep ==
    (policy = "batch" /\ pc = "admit" /\ pc' = "deploy_test") =>
        /\ Len(arrivals) = 0
        /\ Ids(PendingSet) = 1..(next_id - 1)
        /\ next_id - 1 = arrived
C13_BatchSingleDrain == [](C13_BatchState) /\ [][C13_BatchStep]_vars

C13_Witness ==
    /\ policy = "batch"
    /\ pc = "done"
    /\ Len(arrivals) = 1
    /\ next_id = 2
    /\ Ids(completed_tasks) = {1}

\* C14: stop() only clears the liveness flag: the step leaves the position
\* of the control thread, the collections and a running wait as they are; the
\* alive loop is left only at its test, so when it is left the deploy loop has
\* emptied pending and (sequential mode) every wait has returned; an
\* iteration starts only while the flag is set.
C14_LoopLeftState ==
    (policy # "batch" /\ pc = "stop_call") =>
        /\ pending_tasks = <<>>
        /\ curr_task = NoTask
        /\ wret = "none"
        /\ ~parallel_execution => deployed_tasks = {}
C14_StopStep ==
    /\ (alive /\ ~alive' /\ pc # "stop_call") =>
          /\ pc' = pc
          /\ <<pending_tasks, deployed_tasks, completed_tasks, curr_task>>'
                = <<pending_tasks, deployed_tasks, completed_tasks, curr_task>>
          /\ waiting' = waiting
    /\ (pc = "loop_test" /\ pc' = "admit") => alive
    /\ (policy # "batch" /\ pc # "stop_call" /\ pc' = "stop_call") => pc = "loop_test"
Stopped == pc \in {"done", "crashed"}
C15_StopLeadsToStopped == (runs > 0 /\ ~alive) ~> Stopped

\* the same for the two policies whose loop reads the flag
AliveLoopStops == (policy # "batch" /\ runs > 0 /\ ~alive) ~> Stopped

\* tasks whose epochs the budget-adaptive admission has set, and the queue
\* time each of them was given against (the tasks put before it are still queued)
Budgeted == {t \in PendingSet : t.id >= admit_mark /\ t.id < next_id}
RECURSIVE CostOf(_)
CostOf(S) ==
    IF S = {} THEN 0
    ELSE LET t == CHOOSE x \in S : TRUE
         IN estimated_time(t.epochs) + CostOf(S \ {t})
BacklogCost(t) == CostOf({u \in PendingSet : u.id < t.id})

\* C16: every epoch budget assigned lies in 1..BASE_EPOCHS, and it is 1 when
\* the queue time of pending exceeds total_time.
C16_BudgetInRange ==
    \A t \in Budgeted :
        /\ t.epochs \in 1..BASE_EPOCHS
        /\ BacklogCost(t) > total_time * 10000 => t.epochs = 1

\* total_time 100, one queued task of 10 epochs (queue time 266.9721)
C16_Witness ==
    /\ total_time = 100
    /\ admit_mark = 2
    /\ \E u \in PendingSet : u.id = 1 /\ u.epochs = 10
    /\ \E t \in Budgeted : t.id = 2 /\ t.epochs = 1 /\ BacklogCost(t) = 2669721

\* C17: with total_time fixed, a larger queue time never gives a larger
\* budget: among the budgets assigned, and against the budget any other
\* queue of pending would give.
CompareQueues == {HeapOf(a) : a \in SeqsUpTo(BudgetInputs, MaxBacklog)}
C17_BudgetMonotone ==
    /\ \A t, u \in Budgeted :
          BacklogCost(t) <= BacklogCost(u) => u.epochs <= t.epochs
    /\ \A t \in Budgeted : \A q \in CompareQueues :
          /\ BacklogCost(t) <= QueueTime(q) => Epochs(q, total_time) <= t.epochs
          /\ QueueTime(q) <= BacklogCost(t) => t.epochs <= Epochs(q, total_time)

C17_Witness ==
    \E t, u \in Budgeted :
        /\ BacklogCost(t) < BacklogCost(u)
        /\ u.epochs < t.epochs
        /\ t.epochs < BASE_EPOCHS

\* C18: tasks built = arrivals taken from the feed; a step that takes an
\* arrival is a step of the admission loop, takes one arrival and puts one
\* task, built from that arrival, into pending; with the feed empty the
\* admission loop goes on to the deploy loop at once.
C18_OneTaskPerArrival == next_id - 1 = arrived - Len(arrivals)
C18_AdmitStep ==
    /\ Len(arrivals') < Len(arrivals) =>
          /\ pc = "admit"
          /\ arrivals' = Tail(arrivals)
          /\ next_id' = next_id + 1
          /\ Len(pending_tasks') = Len(pending_tasks) + 1
          /\ \E t \in SeqToSet(pending_tasks') :
                /\ t.id = next_id
                /\ t.priority = Head(arrivals).priority
                /\ t.kind = Head(arrivals).kind
                /\ SeqToSet(pending_tasks') = PendingSet \cup {t}
    /\ (pc = "admit" /\ Len(arrivals) = 0 /\ arrivals' = arrivals /\ alive' = alive) =>
          pc' = "deploy_test" /\ pending_tasks' = pending_tasks
    /\ pending_tasks' # pending_tasks => pc \in {"admit", "deploy_test"}
C18_Admission == [](C18_OneTaskPerArrival) /\ [][C18_AdmitStep]_vars

C18_Witness ==
    /\ pc = "deploy_test"
    /\ arrived = 2
    /\ Len(arrivals) = 0
    /\ Ids(PendingSet) = {1, 2}

\* C19: what one instance admits, deploys and completes leaves the
\* collections of another instance of the process, which has run nothing, as
\* they were constructed: empty.
C19_InstancesIndependent ==
    /\ OtherPending = <<>>
    /\ OtherDeployed = {}
    /\ OtherCompleted = {}

\* C20: every task in deployed has a job in the namespace, that is, its
\* submission returned; a task that reaches client.create has no job yet and
\* has not failed before (no second submission); a task whose registration or
\* submission raised is in none of the collections and run() has ended.
C20_DeployedAfterSubmit ==
    /\ \A t \in deployed_tasks : JobName(t) \in cluster_jobs
    /\ pc \in SubmitPcs =>
          /\ JobName(curr_task) \notin cluster_jobs
          /\ curr_task \notin lost
          /\ curr_task \notin deployed_tasks \cup completed_tasks \cup PendingSet
    /\ \A t \in lost :
          /\ t \notin deployed_tasks \cup completed_tasks \cup PendingSet
          /\ JobName(t) \notin cluster_jobs
          /\ pc = "crashed"
    /\ \A i, j \in 1..Len(iter_log) : i # j => iter_log[i].id # iter_log[j].id

C20_Witness ==
    /\ pc = "crashed"
    /\ failure = "submit"
    /\ Ids(lost) = {2}
    /\ Ids(deployed_tasks) = {1}

\* ---- C21 ----
\* C21: movement is forward only. In every step a task of deployed_tasks stays
\* there or is in completed_tasks afterwards, its id is never back in
\* pending_tasks, and completed_tasks never loses a task -- also while a
\* later arrival of higher priority is waiting in pending_tasks.
C21_ForwardStep ==
    /\ \A t \in deployed_tasks : t \in deployed_tasks' \cup completed_tasks'
    /\ Ids(deployed_tasks \cup completed_tasks) \cap Ids(PendingSet)' = {}
    /\ completed_tasks \subseteq completed_tasks'

C21_ForwardOnly == [][C21_ForwardStep]_vars

\* a task is deployed and not completed while a later arrival of higher priority
\* (smaller number) is pending
C21_Witness ==
    \E d \in deployed_tasks : \E p \in PendingSet :
        /\ d.kind # "historical"
        /\ p.priority < d.priority
        /\ p.id > d.id

\* ---- C22 ----
\* C22: the polling loop returns only with deployed_tasks empty; a task leaves
\* deployed_tasks only in the round in which its status query reported a
\* terminal status (so a job that never reports one keeps the loop running);
\* and when every job reports a terminal status after finitely many rounds,
\* the call returns.
C22_ReturnsEmpty == pc \in {"w_ret", "returned"} => deployed_tasks = {}

C22_LeaveStep ==
    /\ \A t \in deployed_tasks \ deployed_tasks' : t \in task_to_move
    /\ \A t \in task_to_move' \ task_to_move :
        /\ last_query'.task = t.id
        /\ last_query'.status \in Terminal

C22_WaitTerminates ==
    /\ [](C22_ReturnsEmpty)
    /\ [][C22_LeaveStep]_vars
    /\ <>(pc = "returned")

\* the call is about to return after three rounds that had to wait, with three
\* tasks completed
C22_Witness ==
    /\ pc = "w_ret"
    /\ w_sleeps >= 3
    /\ Cardinality(completed_tasks) = 3
    /\ deployed_tasks = {}

\* ---- C23 ----
\* C23: a task enters deployed_tasks only as the task just popped from
\* pending_tasks and enters completed_tasks only from deployed_tasks; and, when
\* no deployment call raises (run() does not crash) and every job reports a
\* terminal status after finitely many polls, every admitted task is
\* eventually in completed_tasks.
C23_PathStep ==
    /\ \A t \in Admitted(deployed_tasks') \ deployed_tasks :
        /\ t = curr_task
        /\ t.id \in Ids(SeqToSet(iter_log))
    /\ \A t \in completed_tasks' \ completed_tasks : t \in deployed_tasks
    /\ (curr_task' # curr_task /\ curr_task' # NoTask) =>
            /\ Len(pending_tasks) > 0
            /\ curr_task' = pending_tasks[1]

C24_State ==
    (parallel_execution /\ policy # "batch") =>
        /\ pc \in WaitPcs => (wret = "final" /\ ~alive)
        /\ pc \notin WaitPcs \cup {"done"} => completed_tasks = {}

C24_Step ==
    (parallel_execution /\ policy # "batch") =>
        /\ (pc \notin WaitPcs /\ pc' \in WaitPcs) => pc = "stop_call"
        /\ (pc \in WaitPcs /\ pc' \notin WaitPcs) => pc' = "done"
        /\ completed_tasks' # completed_tasks => pc = "w_for"

C24_ParallelWaitsOnce == [](C24_State) /\ [][C24_Step]_vars

\* the alive loop is between two iterations with two jobs submitted and nothing
\* completed
C24_Witness ==
    /\ parallel_execution
    /\ policy = "simulated"
    /\ pc = "iter_sleep"
    /\ alive
    /\ Cardinality(deployed_tasks) = 2
    /\ completed_tasks = {}

\* ---- C25 ----
\* C25: the continuous policy starts an iteration only when _alive is set at the
\* loop's test; the admission of an iteration ends with the feed empty; the
\* deploy loop ends with pending_tasks empty, so pending_tasks is empty between
\* iterations, after the loop and when run() has returned.
OutsideIteration ==
    \/ pc \in {"iter_sleep", "loop_test", "stop_call", "done"}
    \/ pc \in WaitPcs /\ wret = "final"

C25_State == (policy = "simulated" /\ OutsideIteration) => pending_tasks = <<>>

C25_Step ==
    policy = "simulated" =>
        /\ (pc = "loop_test" /\ pc' = "admit") => alive
        /\ (pc = "admit" /\ pc' = "deploy_test") =>
                (arrivals = <<>> /\ pending_tasks' = pending_tasks)
        /\ (pc = "deploy_test" /\ pc' = "iter_sleep") => pending_tasks = <<>>

C25_IterationDrains == [](C25_State) /\ [][C25_Step]_vars

\* a sequential run is between two iterations, alive, with both arrivals
\* admitted, deployed and completed
C25_Witness ==
    /\ policy = "simulated"
    /\ ~parallel_execution
    /\ pc = "iter_sleep"
    /\ alive
    /\ pending_tasks = <<>>
    /\ Ids(completed_tasks) = {1, 2}
    /\ arrivals = <<>>

\* ---- C26 ----
\* C26: in the batch policy an exception raised during housekeeping (by the
\* listing of the historical jobs, by the listing or a deletion of
\* _clear_jobs) never leaves run(): the step in which a listing raises takes
\* the control thread to the wait for a first arrival with the collections
\* untouched, and run() is left by an exception only from the deploy loop.
HousekeepingCalls == {"hk_list", "list", "delete"}

C26_State ==
    policy = "batch" =>
        /\ ~(pc = "crashed" /\ failure \in HousekeepingCalls)
        /\ pc = "crashed" => lost # {}

C26_Step ==
    (policy = "batch" /\ failure' # failure /\ failure' \in {"hk_list", "list"}) =>
        /\ pc' = "first_arrival"
        /\ alive' = alive
        /\ UNCHANGED <<pending_tasks, deployed_tasks, completed_tasks, cluster_jobs>>

C26_HousekeepingCaught == [](C26_State) /\ [][C26_Step]_vars

\* the listing of the historical jobs raised, and the batch run has gone on to
\* admit, deploy and complete two tasks and has returned
C26_Witness ==
    /\ policy = "batch"
    /\ failure = "hk_list"
    /\ pc = "done"
    /\ Ids(completed_tasks) = {1, 2}
    /\ cluster_jobs # {}

\* ---- C27 ----
\* C27: under every policy a failure of the cleanup of old jobs -- the listing
\* of _clear_jobs or one of its deletions -- does not make run() end with an
\* exception.
C27_CleanupNeverAborts == failure \in {"list", "delete"} => pc # "crashed"

\* the part that holds: a deletion that raises is caught (lines 199-207), the
\* remaining jobs are still attempted and run() goes on
C27_DeletionCaught ==
    [][(failure' # failure /\ failure' = "delete") =>
            /\ pc' = "clear_del"
            /\ to_delete' \subseteq to_delete
            /\ cluster_jobs' = cluster_jobs]_vars

\* ---- C28 ----
\* C28: wait_for_jobs_to_complete(others) holds, all through the call, exactly
\* one historical task per distinct uuid carried by a name of `others` (names
\* carrying none add nothing, names carrying the same one add one task); a
\* round polls the historical tasks with the others; and the call is left with
\* deployed_tasks empty and every seeded identifier in completed_tasks.
UuidsOf(others) == {n.uuid : n \in others} \ {-1}
HistoricalOf(S) == {t \in S : t.kind = "historical"}

C28_HistoricalSeeding ==
    /\ pc \in WaitPcs =>
        LET hist == HistoricalOf(deployed_tasks \cup completed_tasks) IN
        /\ Ids(hist) = UuidsOf(w_entry.others)
        /\ Cardinality(hist) = Cardinality(UuidsOf(w_entry.others))
        /\ HistoricalOf(deployed_tasks) \cap HistoricalOf(completed_tasks) = {}
        /\ pc = "w_sleep" => deployed_tasks \subseteq polled
        /\ pc = "w_ret" =>
            /\ deployed_tasks = {}
            /\ UuidsOf(w_entry.others) \subseteq Ids(completed_tasks)
    /\ pc = "returned" => (wret = "none" /\ deployed_tasks = {})

\* the call is about to return: four names were supplied, two historical tasks
\* were seeded, polled for two rounds at least, and completed with the caller's two
C28_Witness ==
    /\ pc = "w_ret"
    /\ w_entry.others = SeedNames
    /\ w_entry.deployed = WaitTasks
    /\ Cardinality(completed_tasks) = 4
    /\ w_sleeps >= 2

\* ---- C29 ----
\* C29: the deployment of a popped task goes in order: the artifact of every
\* role is rendered, then one config map per role is created, then the job is
\* submitted and the task added to deployed_tasks in the same step. A job is
\* submitted only with the config maps of all roles created, and between the
\* pop and the add no job status is queried.
C29_State ==
    /\ pc = "cfgmaps" => (CanRender(curr_task) /\ roles_done < Len(Roles))
    /\ pc = "submit" => (CanRender(curr_task) /\ roles_done = Len(Roles))
    /\ pc \in SubmitPcs =>
        /\ curr_task # NoTask
        /\ curr_task \notin deployed_tasks
        /\ wret = "none"
        /\ ~w_queries
    /\ pc \notin SubmitPcs => (curr_task = NoTask /\ roles_done = 0)

C29_Step ==
    /\ cluster_jobs' \ cluster_jobs # {} =>
        /\ pc = "submit"
        /\ roles_done = Len(Roles)
        /\ cluster_jobs' = cluster_jobs \cup {JobName(curr_task)}
        /\ deployed_tasks' = deployed_tasks \cup {curr_task}
    /\ Admitted(deployed_tasks') \ deployed_tasks # {} =>
        JobName(curr_task) \in cluster_jobs'
    /\ (roles_done' # roles_done /\ roles_done' # 0) =>
        /\ pc = "cfgmaps"
        /\ roles_done' = roles_done + 1
    /\ pc \in SubmitPcs => UNCHANGED <<w_queries, last_query, completed_tasks>>

C29_DeploymentOrder == [](C29_State) /\ [][C29_Step]_vars

\* the second task of the run, a federated one, has its two config maps created
\* and is about to be submitted
C29_Witness ==
    /\ pc = "submit"
    /\ roles_done = Len(Roles)
    /\ curr_task.kind = "federated"
    /\ curr_task.id = 2
    /\ Cardinality(deployed_tasks) = 1

\* ---- C30 ----
\* C30: no policy pops from an empty pending_tasks: pending_tasks loses an
\* element only at the deploy loop's test, when it holds one at least, and it
\* loses exactly its head, which becomes the current task; the control thread
\* is never blocked in get().
C30_PopStep ==
    pending_tasks' # pending_tasks /\ Len(pending_tasks') <= Len(pending_tasks) =>
        /\ pc = "deploy_test"
        /\ Len(pending_tasks) > 0
        /\ Len(pending_tasks') = Len(pending_tasks) - 1
        /\ curr_task' = pending_tasks[1]
        /\ PendingSet' = PendingSet \ {curr_task'}

C30_NoPopFromEmpty ==
    /\ [](pc # "blocked")
    /\ [](pc \in SubmitPcs => curr_task # NoTask)
    /\ [][C30_PopStep]_vars

\* the batch policy has popped the last of its two tasks: the queue is empty and
\* the deploy loop's next test ends the loop
C30_Witness ==
    /\ policy = "batch"
    /\ pc = "prepare"
    /\ pending_tasks = <<>>
    /\ Len(iter_log) = 2

\* ---- C31 ----
\* C31: in the budget-adaptive policy pending_tasks is empty whenever the alive
\* loop is at its test, so during an admission phase it holds the tasks of this
\* phase only; the epochs of each of them are the clamped estimate for
\* total_time minus the estimated time of the tasks admitted before it in the
\* phase -- whatever is deployed and whatever epochs the arrival asked for.
BudgetFor(t) ==
    LET allocated == total_time * 10000 - BacklogCost(t)
        estimate == TruncDiv(allocated - INTERCEPT, SLOPE)
    IN IF estimate < 1 THEN 1 ELSE IF estimate > BASE_EPOCHS THEN BASE_EPOCHS ELSE estimate

C31_BacklogIsThisPhase ==
    policy = "optimized" =>
        /\ pc \in {"loop_test", "iter_sleep", "stop_call", "done"} => pending_tasks = <<>>
        /\ pc = "admit" =>
            /\ PendingSet = Budgeted
            /\ Ids(PendingSet) \cap Ids(deployed_tasks \cup completed_tasks) = {}
            /\ \A t \in PendingSet : t.epochs = BudgetFor(t)

\* a parallel run admits its second arrival while the first task, given 3
\* epochs, is deployed and not completed: the second is given 3 epochs too
\* (1 if the deployed task counted)
C31_Witness ==
    /\ policy = "optimized"
    /\ total_time = 100
    /\ pc = "admit"
    /\ admit_mark = 2
    /\ \E d \in deployed_tasks : d.id = 1 /\ d.epochs = 3
    /\ completed_tasks = {}
    /\ \E t \in PendingSet : t.id = 2 /\ t.epochs = 3

\* ---- C32 ----
\* C32: whatever namespace is configured, a task whose job was submitted is
\* eventually in completed_tasks (or run() has ended with an exception): the
\* polling sees the terminal status the job reaches in its namespace.
C32_TerminalSeen ==
    \A i \in 1..MaxLive :
        (i \in Ids(deployed_tasks)) ~> (i \in Ids(completed_tasks) \/ pc = "crashed")

\* the part that holds: with the namespace 'test' configured
C32_SeenInTest ==
    \A i \in 1..MaxLive :
        (namespace = QueryNamespace /\ i \in Ids(deployed_tasks))
            ~> (i \in Ids(completed_tasks) \/ pc = "crashed")

\* in any other namespace no task of the run is ever completed
C32_NeverSeenElsewhere ==
    namespace # QueryNamespace => Admitted(completed_tasks) = {}

\* ---- C33 ----
\* C33: in a batch run with wait_historical and clear both set, the clear step
\* is entered only from the return of the historical wait; when the listing
\* of the historical jobs raises, the control thread goes to the wait for a
\* first arrival, and from then on no job is listed for deletion or deleted:
\* the old jobs stay in the namespace.
C33_State ==
    failure = "hk_list" =>
        /\ pc \notin {"clear_list", "clear_del", "hk_list_clear"}
        /\ to_delete = {}
        /\ cluster_jobs \cap ForeignNames \in {{}, ForeignNames}

C33_Step ==
    /\ (pc = "hk_list_clear" /\ pc' # pc) =>
        \/ pc' = "w_test" /\ wret' = "hk_clear" /\ failure' = failure
        \/ pc' = "first_arrival" /\ failure' = "hk_list" /\ UNCHANGED cluster
    /\ (pc' = "clear_list" /\ pc # "clear_list") =>
        (pc = "w_ret" /\ wret = "hk_clear" /\ deployed_tasks = {} /\ failure = "none")
    /\ failure = "hk_list" => cluster_jobs \subseteq cluster_jobs'

C33_ClearAfterHistoricalWait == [](C33_State) /\ [][C33_Step]_vars

\* the listing raised; the run has admitted, deployed and completed two tasks
\* and returned, and the two old jobs are still in the namespace
C33_Witness ==
    /\ failure = "hk_list"
    /\ pc = "done"
    /\ ForeignNames \subseteq cluster_jobs
    /\ Ids(completed_tasks) = {1, 2}

\* ---- C34 ----
\* C34: get_sampler gives None when distributed mode is off, and with
\* distributed mode on and a method name that is none of the known ones it
\* gives a UniformSampler instead of failing.
C34_UnknownMethodGivesUniform ==
    \A r \in DOMAIN samplers :
        /\ ~sampler_args.distributed => samplers[r].class = "None"
        /\ (sampler_args.distributed /\ sampler_args.method \notin KnownMethods) =>
                samplers[r].class = "UniformSampler"

\* the part that holds: None without distributed mode, and the class of the
\* name for every known name
C34_KnownMethods ==
    \A r \in DOMAIN samplers :
        /\ ~sampler_args.distributed => samplers[r].class = "None"
        /\ (sampler_args.distributed /\ sampler_args.method \in KnownMethods) =>
                samplers[r].class = SamplerClass(sampler_args.method)

\* ---- C35 ----
\* C35: for a dataset of n items and R replicas, the UniformSampler of rank r
\* holds exactly the indices i < n with i mod R = r, each once; the index
\* lists of two ranks are disjoint, and when all R ranks have their sampler
\* every index below n is in exactly one list.
UniformRanks ==
    IF sampler_args.distributed /\ sampler_args.method = "uniform"
    THEN DOMAIN samplers ELSE {}

C35_UniformPartition ==
    LET n == sampler_args.length
        R == sampler_args.world_size
        ix(r) == samplers[r].indices
    IN /\ \A r \in UniformRanks :
            /\ SeqToSet(ix(r)) = {i \in 0..(n - 1) : i % R = r}
            /\ Len(ix(r)) = Cardinality(SeqToSet(ix(r)))
       /\ \A r, q \in UniformRanks : r # q => SeqToSet(ix(r)) \cap SeqToSet(ix(q)) = {}
       /\ UniformRanks = 0..(R - 1) =>
            \A i \in 0..(n - 1) :
                Cardinality({r \in UniformRanks : i \in SeqToSet(ix(r))}) = 1

\* five items over three replicas, all three samplers constructed: 0,3 / 1,4 / 2
C35_Witness ==
    /\ sampler_args.distributed
    /\ sampler_args.method = "uniform"
    /\ sampler_args.length = 5
    /\ sampler_args.world_size = 3
    /\ DOMAIN samplers = 0..2
    /\ samplers[0].indices = <<0, 3>>
    /\ samplers[1].indices = <<1, 4>>
    /\ samplers[2].indices = <<2>>

====
